---- MODULE Spec2Model ----
(***************************************************************************)
(* Model of handle_multipart (src/src/main.rs, lines 198-296): the         *)
(* three-step multipart upload of the s3cli command line client.           *)
(*                                                                         *)
(* Strings are sequences of one-character strings, so that read_line,     *)
(* String::pop and the comparison with "END" are computed character by    *)
(* character.  Every call on the storage client, every read of standard   *)
(* input and every file open is appended to the history variable log.     *)
(***************************************************************************)
EXTENDS Integers, Sequences, FiniteSets, TLC

VARIABLES
    pc,               \* position of handle_multipart in the spec's state machine
    upload_id,        \* Option<String> of CreateMultipartUploadOutput (l.216)
    bucket,           \* Option<String> of CreateMultipartUploadOutput (l.216)
    buf,              \* the String the lines are read into (l.224)
    part_number,      \* l.225
    completed_parts,  \* l.226
    input,            \* every byte standard input will deliver in this run
    consumed,         \* how many bytes of input read_line has taken so far
    files,            \* the paths ByteStream::from_path can open
    log               \* history of the calls made, in order

vars == <<pc, upload_id, bucket, buf, part_number, completed_parts,
          input, consumed, files, log>>

----------------------------------------------------------------------------
(* Bounds and input alphabets *)

MaxLines == 2

NL == "\n"

END == <<"E", "N", "D">>

\* texts the operator may type on one line
LineTexts == { <<"a">>, <<"b">>, END, <<>> }

\* a last line that the stream ends in the middle of (no terminator)
UnterminatedTails == { <<"a">>, END }

\* paths that may exist on disk
FileUniverse == { <<"a">>, <<"b">>, END, <<"a", "b">> }

\* entity tags the service may return
ETags == { "e1", "e2" }

TerminatedLines == { t \o <<NL>> : t \in LineTexts }

RECURSIVE Streams(_)
Streams(k) ==
    IF k = 0 THEN { <<>> }
    ELSE LET S == Streams(k - 1)
         IN  S \cup { s \o l : s \in S, l \in TerminatedLines }

InputStreams ==
    { s \o t : s \in Streams(MaxLines), t \in ({ <<>> } \cup UnterminatedTails) }

----------------------------------------------------------------------------
(* History records *)

Ev(ev, ok, n, s, etag, parts) ==
    [ev |-> ev, ok |-> ok, n |-> n, s |-> s, etag |-> etag, parts |-> parts]

EvInitiate(ok)            == Ev("initiate", ok, 0, <<>>, "", <<>>)
EvReadLine(ok, n, line)   == Ev("read_line", ok, n, line, "", <<>>)
EvFromPath(ok, path)      == Ev("from_path", ok, 0, path, "", <<>>)
EvUploadPart(ok, pn, path, etag) == Ev("upload_part", ok, pn, path, etag, <<>>)
EvComplete(ok, parts)     == Ev("complete", ok, 0, <<>>, "", parts)

----------------------------------------------------------------------------
(* Pure helpers *)

\* the bytes standard input has not delivered yet
Rest == SubSeq(input, consumed + 1, Len(input))

\* BufRead::read_line: the bytes up to and including the first newline, or
\* everything that is left when there is no newline; nothing at end of input
read_line(s) ==
    IF \E i \in 1..Len(s) : s[i] = NL
    THEN LET i == CHOOSE j \in 1..Len(s) :
                      /\ s[j] = NL
                      /\ \A m \in 1..(j - 1) : s[m] # NL
         IN  SubSeq(s, 1, i)
    ELSE s

EofToSentinel_Keep(n, b) == b

\* l.233-235: nothing read => the buffer becomes "END"
EofToSentinel(n, b) == IF n = 0 THEN END ELSE b

\* l.237: buf == "END"
IsSentinel(b) == b = END

\* l.255: String::pop removes the last character, if there is one
pop(b) == IF Len(b) = 0 THEN b ELSE SubSeq(b, 1, Len(b) - 1)

\* l.256: ByteStream::from_path(..).await is Ok exactly for an openable path
from_path(path) == path \in files

NextPartNumber_Same(p) == p

\* l.257: part_number += 1
NextPartNumber(p) == p + 1

\* l.269-274: completed_parts.push(CompletedPart { e_tag, part_number })
push(parts, pn, etag) == Append(parts, [part_number |-> pn, etag |-> etag])

AfterInitiate_Continue(ok) == "Initiated"

\* l.210-213: an initiation error is printed and the function returns
AfterInitiate(ok) == IF ok THEN "Initiated" ELSE "Failed"

AfterFromPath_Continue(ok) == "Initiated"

\* l.256: .unwrap() on the result of from_path
AfterFromPath(ok) == IF ok THEN "Initiated" ELSE "Failed"

AfterUploadPart_Continue(result) == "Initiated"

\* l.267 and l.271: .unwrap() on the response and on its e_tag
AfterUploadPart(result) ==
    IF result \in ETags THEN "Initiated" ELSE "Failed"

AfterComplete_Retry(ok) == IF ok THEN "Completed" ELSE "Initiated"

\* l.250 and l.289: .unwrap() on the completion response
AfterComplete(ok) == IF ok THEN "Completed" ELSE "Failed"

\* l.240-241, 261, 264, 279-280: .unwrap() on upload_id and on bucket
IdsPresent == upload_id = "Some" /\ bucket = "Some"

----------------------------------------------------------------------------
(* Initial state: handle_multipart is entered *)

Init ==
    /\ pc = "Uninitiated"
    /\ upload_id = "Unset"
    /\ bucket = "Unset"
    /\ buf = <<>>
    /\ part_number = 0
    /\ completed_parts = <<>>
    /\ input \in InputStreams
    /\ consumed = 0
    /\ files \in SUBSET FileUniverse
    /\ log = <<>>

----------------------------------------------------------------------------
(* Step 1, l.203-219: create_multipart_upload *)

Initiate ==
    /\ pc = "Uninitiated"
    /\ \E ok \in BOOLEAN, uid \in {"Some", "None"}, bkt \in {"Some", "None"} :
          /\ ~ok => (uid = "None" /\ bkt = "None")
          /\ pc' = AfterInitiate(ok)
          /\ upload_id' = IF ok THEN uid ELSE upload_id
          /\ bucket' = IF ok THEN bkt ELSE bucket
          /\ log' = Append(log, EvInitiate(ok))
    /\ UNCHANGED <<buf, part_number, completed_parts, input, consumed, files>>

\* l.238-253 and l.277-293: complete_multipart_upload with completed_parts;
\* the unwraps of upload_id and bucket come before the request is sent
Complete(prefix) ==
    IF IdsPresent
    THEN \E ok \in BOOLEAN :
            /\ log' = prefix \o << EvComplete(ok, completed_parts) >>
            /\ pc' = AfterComplete(ok)
    ELSE /\ log' = prefix
         /\ pc' = "Failed"

\* what l.231 would be with .unwrap() instead of if let Ok(n)
ReadLineErr_Unwrap ==
    /\ pc = "Initiated"
    /\ pc' = "Failed"
    /\ log' = Append(log, EvReadLine(FALSE, 0, <<>>))
    /\ UNCHANGED <<upload_id, bucket, buf, part_number, completed_parts,
                   input, consumed, files>>

\* l.231 else branch, l.275-294: read_line returns Err
ReadLineErr ==
    /\ pc = "Initiated"
    /\ Complete(Append(log, EvReadLine(FALSE, 0, <<>>)))
    /\ UNCHANGED <<upload_id, bucket, buf, part_number, completed_parts,
                   input, consumed, files>>

\* l.231-254: a line is read and the buffer equals "END"
ReadSentinel ==
    /\ pc = "Initiated"
    /\ LET line == read_line(Rest)
           n    == Len(line)
           b    == EofToSentinel(n, buf \o line)
       IN  /\ IsSentinel(b)
           /\ buf' = b
           /\ consumed' = consumed + n
           /\ Complete(Append(log, EvReadLine(TRUE, n, line)))
    /\ UNCHANGED <<upload_id, bucket, part_number, completed_parts, input, files>>

\* l.231-237 and l.255-274: a line is read and taken as the path of a part
ReadPart ==
    /\ pc = "Initiated"
    /\ LET line == read_line(Rest)
           n    == Len(line)
           b    == EofToSentinel(n, buf \o line)
           path == pop(b)
           rd   == Append(log, EvReadLine(TRUE, n, line))
           opn  == Append(rd, EvFromPath(from_path(path), path))
           pn   == NextPartNumber(part_number)
       IN  /\ ~IsSentinel(b)
           /\ buf' = path
           /\ consumed' = consumed + n
           /\ IF AfterFromPath(from_path(path)) = "Failed"
              THEN /\ pc' = "Failed"
                   /\ log' = opn
                   /\ UNCHANGED <<part_number, completed_parts>>
              ELSE /\ part_number' = pn
                   /\ IF ~IdsPresent
                      THEN /\ pc' = "Failed"
                           /\ log' = opn
                           /\ UNCHANGED completed_parts
                      ELSE \E result \in ETags \cup {"None", "Err"} :
                              /\ log' = Append(opn,
                                     EvUploadPart(result # "Err", pn, path,
                                                  IF result \in ETags THEN result ELSE ""))
                              /\ pc' = AfterUploadPart(result)
                              /\ completed_parts' =
                                    IF AfterUploadPart(result) = "Failed"
                                    THEN completed_parts
                                    ELSE push(completed_parts, pn, result)
    /\ UNCHANGED <<upload_id, bucket, input, files>>

Next == Initiate \/ ReadLineErr \/ ReadSentinel \/ ReadPart

Spec == Init /\ [][Next]_vars

\* handle_multipart is one sequential task that runs until it returns or
\* panics, and standard input delivers its finite content and then its end
FairSpec == Spec /\ WF_vars(Next)

----------------------------------------------------------------------------
(* Vocabulary of the properties, all read off the history *)

Terminal == pc \in {"Completed", "Failed"}

Events(ev) == { i \in DOMAIN log : log[i].ev = ev }

IsGoodUpload(e) == e.ev = "upload_part" /\ e.ok /\ e.etag \in ETags

IsUpload(e) == e.ev = "upload_part"

IsFromPath(e) == e.ev = "from_path"

Descriptor(e) == [part_number |-> e.n, etag |-> e.etag]

\* the part descriptors of the upload_part calls that succeeded before event i
DescriptorsBefore(i) ==
    LET S == SelectSeq(SubSeq(log, 1, i - 1), IsGoodUpload)
    IN  [k \in 1..Len(S) |-> Descriptor(S[k])]

UploadsBefore(i) == SelectSeq(SubSeq(log, 1, i - 1), IsUpload)

\* a line without its trailing line terminator, if it has one
Strip(l) ==
    IF Len(l) > 0 /\ l[Len(l)] = NL THEN SubSeq(l, 1, Len(l) - 1) ELSE l

RECURSIVE SplitLines(_)
SplitLines(s) ==
    IF s = <<>> THEN <<>>
    ELSE LET l == read_line(s)
         IN  <<l>> \o SplitLines(SubSeq(s, Len(l) + 1, Len(s)))

InitiateSucceeded ==
    /\ Len(log) >= 1
    /\ log[1].ev = "initiate"
    /\ log[1].ok
    /\ IdsPresent

\* event i completes the upload with exactly the parts uploaded before it,
\* and nothing follows it
CompletesAt(i) ==
    /\ Len(log) = i
    /\ log[i].ev = "complete"
    /\ log[i].parts = DescriptorsBefore(i)

----------------------------------------------------------------------------
(* C1: when the input is N lines naming openable files followed by the    *)
(* line END, and initiate and every upload_part succeed, the run ends     *)
(* with one complete_multipart call whose parts list has N entries,       *)
(* numbered 1..N, the k-th carrying the etag of the k-th upload_part.     *)

C1_Input ==
    LET L == SplitLines(input)
    IN  /\ Len(L) >= 1
        /\ L[Len(L)] = END \o <<NL>>
        /\ \A k \in 1..(Len(L) - 1) :
              /\ L[k][Len(L[k])] = NL
              /\ Strip(L[k]) # END
              /\ Strip(L[k]) \in files

C1_CallsSucceed ==
    /\ InitiateSucceeded
    /\ \A i \in Events("upload_part") : IsGoodUpload(log[i])
    /\ \A i \in Events("read_line") : log[i].ok
    /\ \A i \in Events("complete") : log[i].ok

C1_CompletedWithNParts ==
    LET N == Len(SplitLines(input)) - 1
        U == UploadsBefore(Len(log))
    IN  /\ Cardinality(Events("complete")) = 1
        /\ log[Len(log)].ev = "complete"
        /\ Len(log[Len(log)].parts) = N
        /\ Len(U) = N
        /\ \A k \in 1..N :
              /\ log[Len(log)].parts[k].part_number = k
              /\ log[Len(log)].parts[k].etag = U[k].etag

C1_Original ==
    (Terminal /\ C1_Input /\ C1_CallsSucceed) => C1_CompletedWithNParts

----------------------------------------------------------------------------
(* C2: after a successful initiate, a line read that is exactly END and   *)
(* its line terminator is followed by no upload_part but at once by the   *)
(* complete_multipart call with the parts accumulated so far, and         *)
(* nothing is read after it.                                              *)

C2_Original ==
    \A i \in Events("read_line") :
        (InitiateSucceeded /\ log[i].ok /\ log[i].s = END \o <<NL>>)
            => CompletesAt(i + 1)

----------------------------------------------------------------------------
(* C3: when read_line reports the end of the input after k parts were     *)
(* uploaded, complete_multipart is called at once, once in the whole run, *)
(* with those k parts, and nothing is uploaded or read after it.          *)

C3_EofCompletes ==
    \A i \in Events("read_line") :
        (InitiateSucceeded /\ log[i].ok /\ log[i].n = 0)
            => /\ CompletesAt(i + 1)
               /\ Cardinality(Events("complete")) = 1
               /\ Len(log[i + 1].parts) = Len(UploadsBefore(i))
               /\ Terminal

C3_Witness ==
    /\ Len(log) >= 2
    /\ log[Len(log) - 1].ev = "read_line"
    /\ log[Len(log) - 1].ok
    /\ log[Len(log) - 1].n = 0
    /\ log[Len(log)].ev = "complete"
    /\ Len(log[Len(log)].parts) = 2

----------------------------------------------------------------------------
(* C4: the path of every upload_part call is the line read for it, with   *)
(* only its trailing line terminator removed (nothing of an earlier line, *)
(* and a last line without terminator unchanged).                         *)

C4_Original ==
    \A i \in Events("upload_part") :
        /\ i >= 3
        /\ log[i - 2].ev = "read_line"
        /\ log[i].s = Strip(log[i - 2].s)

----------------------------------------------------------------------------
(* C5: a failed upload_part call is the last thing the run does: the run  *)
(* is Failed, nothing is read or uploaded after it and complete_multipart *)
(* is never called, so the parts uploaded before stay uncompleted.        *)

C5_UploadFailureIsFinal ==
    \A i \in Events("upload_part") :
        ~log[i].ok
            => /\ Len(log) = i
               /\ pc = "Failed"
               /\ Events("complete") = {}

C5_Witness ==
    /\ Len(log) >= 1
    /\ log[Len(log)].ev = "upload_part"
    /\ ~log[Len(log)].ok
    /\ log[Len(log)].n = 2
    /\ Len(completed_parts) = 1

----------------------------------------------------------------------------
(* C6: when initiate_multipart fails, the run is Failed with that one     *)
(* call in its history: no input line was read, no parts list was built   *)
(* and neither upload_part nor complete_multipart was called.             *)

C6_InitiateFailureIsFinal ==
    (Len(log) >= 1 /\ log[1].ev = "initiate" /\ ~log[1].ok)
        => /\ Len(log) = 1
           /\ pc = "Failed"
           /\ consumed = 0
           /\ buf = <<>>
           /\ part_number = 0
           /\ completed_parts = <<>>

C6_Witness ==
    /\ pc = "Failed"
    /\ log = << EvInitiate(FALSE) >>
    /\ Len(input) > 0

----------------------------------------------------------------------------
(* C7: complete_multipart is called at most once; the list it receives is *)
(* exactly the descriptors of the successful upload_part calls before it, *)
(* numbered 1, 2, 3, ... without gap or duplicate; and it is the last     *)
(* thing the run does (no upload_part, no read after it).                 *)

C7_CompleteOnceWithUploadedParts ==
    /\ Cardinality(Events("complete")) <= 1
    /\ \A i \in Events("complete") :
          /\ CompletesAt(i)
          /\ Terminal
          /\ \A k \in 1..Len(log[i].parts) : log[i].parts[k].part_number = k

C7_Witness ==
    /\ Len(log) >= 1
    /\ log[Len(log)].ev = "complete"
    /\ Len(log[Len(log)].parts) = 2
    /\ log[Len(log)].parts[1].etag # log[Len(log)].parts[2].etag

----------------------------------------------------------------------------
(* C8: every run reaches Completed or Failed, and a failed initiate,      *)
(* upload_part or complete_multipart call is the last call of its run:    *)
(* the run is Failed and no retry, abort or completion follows.           *)

IsFailedCall(e) ==
    e.ev \in {"initiate", "upload_part", "complete"} /\ ~e.ok

C8_FailedCallIsLast ==
    \A i \in DOMAIN log :
        IsFailedCall(log[i]) => (Len(log) = i /\ pc = "Failed")

C8_TerminatesWithoutCompensation ==
    /\ <>Terminal
    /\ []C8_FailedCallIsLast

C8_Witness ==
    /\ pc = "Failed"
    /\ Len(log) >= 1
    /\ log[Len(log)].ev = "complete"
    /\ ~log[Len(log)].ok
    /\ Len(log[Len(log)].parts) >= 1

----------------------------------------------------------------------------
(* C9: when read_line returns an error after a successful initiate, the   *)
(* run calls complete_multipart at once with the parts accumulated so     *)
(* far, and is Completed when that call succeeds.                         *)

C9_ReadErrorCompletes ==
    \A i \in Events("read_line") :
        (InitiateSucceeded /\ ~log[i].ok)
            => /\ CompletesAt(i + 1)
               /\ log[i + 1].parts = completed_parts
               /\ log[i + 1].ok => pc = "Completed"

C9_Witness ==
    /\ pc = "Completed"
    /\ Len(log) >= 2
    /\ log[Len(log) - 1].ev = "read_line"
    /\ ~log[Len(log) - 1].ok
    /\ Len(log[Len(log)].parts) >= 1

----------------------------------------------------------------------------
(* C10: when the file of a line cannot be opened, the run is Failed at    *)
(* that point: no upload_part is issued for the line, part_number is not  *)
(* advanced for it, nothing is read afterwards and complete_multipart is  *)
(* never called.                                                          *)

IsGoodOpen(e) == e.ev = "from_path" /\ e.ok

C10_OpenFailureIsFinal ==
    \A i \in Events("from_path") :
        ~log[i].ok
            => /\ Len(log) = i
               /\ pc = "Failed"
               /\ Events("complete") = {}
               /\ part_number = Len(SelectSeq(log, IsGoodOpen))
               /\ IdsPresent => part_number = Len(UploadsBefore(i))

C10_Witness ==
    /\ pc = "Failed"
    /\ Len(log) >= 1
    /\ log[Len(log)].ev = "from_path"
    /\ ~log[Len(log)].ok
    /\ part_number = 1
    /\ Len(completed_parts) = 1

====
